---- MODULE Spec2Model ----
(***************************************************************************)
(* Circadian rhythm analysis: CosinorModel (src/src/cosinor_model.py), the *)
(* result reporting of run_pipeline (src/src/main.py) and SignalProcessor  *)
(* (src/src/signal_processing.py).                                         *)
(*                                                                         *)
(* Numbers are exact rationals in fixed point:                             *)
(*   - a phase is an integer number of angle units, TwoPi units per turn;  *)
(*   - a time in hours is an integer number of 1/TwoPi hours, so that      *)
(*     phase / omega = phase * tau / TwoPi is an integer;                  *)
(*   - rates, frequencies and periods of the signal processor are          *)
(*     fractions [num, den], den = 0 standing for the IEEE value inf.      *)
(* Floating-point rounding is not modelled.                                *)
(***************************************************************************)
EXTENDS Integers, Sequences, FiniteSets, TLC

VARIABLES
    tau,            \* CosinorModel.tau, hours
    params,         \* CosinorModel.params: None or <<M, A, phi>>
    covariances,    \* CosinorModel.covariances: None or a 3x3 matrix
    fit_outcome,    \* how the most recent fit_model call ended
    fit_state,      \* UNFIT / FITTED / FIT_FAILED: the most recent fit_model
                    \* call that returned
    had_params,     \* params was set when the most recent fit_model call began
    raised,         \* the exception the most recent call let reach its caller
    cop,            \* most recent CosinorModel / reporting operation
    cret            \* what that operation returned

cvars == <<tau, params, covariances, fit_outcome, fit_state, had_params,
           raised, cop, cret>>

----------------------------------------------------------------------------
\* Python's None and a present value
None == <<>>
Some(x) == <<x>>
Val(o) == o[1]

\* Bounds of the model
MaxTau == 3         \* periods 1..MaxTau hours
MaxAmp == 1         \* fitted amplitudes -MaxAmp..MaxAmp
PhiSpan == 5        \* fitted phases from -PhiSpan to TwoPi + PhiSpan
MaxSE == 0          \* standard errors up to MaxSE + 2
MaxRows == 3        \* rows of the series handed to fit_model

\* 2 * np.pi, in angle units
TwoPi == 4

Taus == 1..MaxTau
Phis == (0 - PhiSpan)..(TwoPi + PhiSpan)
Amps == (0 - MaxAmp)..MaxAmp
Levels == {0, 75}

\* hours -> fixed point
Hours(h) == h * TwoPi

\* Python's float % : the result has the sign of the divisor
PyMod(a, b) ==
    IF b > 0 THEN a % b
    ELSE IF b < 0 THEN 0 - ((0 - a) % (0 - b))
    ELSE 0

Abs(x) == IF x < 0 THEN 0 - x ELSE x

\* np.sqrt on the squares the model uses
Sqrt(v) == CHOOSE r \in 0..v : r * r = v

\* np.diag of a matrix
Diag(m) == [i \in 1..Len(m) |-> m[i][i]]

\* the covariance matrices curve_fit may return
CovMatrix(k) ==
    << <<k * k, 0, 0>>,
       <<0, (k + 1) * (k + 1), 0>>,
       <<0, 0, (k + 2) * (k + 2)>> >>
Covs == {CovMatrix(k) : k \in 0..MaxSE}

\* the parameter vectors curve_fit may return
Popts == {<<M, A, phi>> : M \in Levels, A \in Amps, phi \in Phis}

----------------------------------------------------------------------------
\* CosinorModel.__init__
InitCosinor ==
    /\ tau \in Taus
    /\ params = None
    /\ covariances = None
    /\ fit_outcome = "UNFIT"
    /\ fit_state = "UNFIT"
    /\ had_params = FALSE
    /\ raised = "none"
    /\ cop = "init"
    /\ cret = None

\* fit_model, lines 46-64: what the statements up to and including curve_fit
\* do on a series of n rows.  np.max of an empty array raises ValueError
\* (line 53, before the try); curve_fit raises TypeError when there are
\* fewer samples than the three parameters; otherwise it returns
\* (popt, pcov) or raises RuntimeError when maxfev is exhausted.
CurveFitOutcomes(n) ==
    IF n = 0 THEN {[exc |-> "ValueError"]}
    ELSE IF n < 3 THEN {[exc |-> "TypeError"]}
    ELSE {[exc |-> "RuntimeError"]}
         \cup {[exc |-> "none", popt |-> p, pcov |-> c] : p \in Popts, c \in Covs}

\* fit_model, line 66: except RuntimeError
ExceptClause(exc) == exc = "RuntimeError"

\* fit_model, lines 68-69: the fields after the handler ran
FitFailedKeep(p, c) == <<p, c>>
FitFailedFields(p, c) == <<None, None>>

\* fit_model, line 58: the fields after curve_fit returned
FitSuccessFields(popt, pcov) == <<Some(popt), Some(pcov)>>

\* fit_model(df, value_col) on a series of n rows
fit_model(n) ==
    \E out \in CurveFitOutcomes(n) :
        /\ cop' = "fit_model"
        /\ cret' = None
        /\ tau' = tau
        /\ had_params' = (params # None)
        /\ IF out.exc = "none"
           THEN /\ params' = FitSuccessFields(out.popt, out.pcov)[1]
                /\ covariances' = FitSuccessFields(out.popt, out.pcov)[2]
                /\ fit_outcome' = "converged"
                /\ fit_state' = "FITTED"
                /\ raised' = "none"
           ELSE IF ExceptClause(out.exc)
           THEN /\ params' = FitFailedFields(params, covariances)[1]
                /\ covariances' = FitFailedFields(params, covariances)[2]
                /\ fit_outcome' = "not_converged"
                /\ fit_state' = "FIT_FAILED"
                /\ raised' = "none"
           ELSE \* the exception reaches the caller, nothing was assigned
                /\ fit_outcome' = "rejected"
                /\ raised' = out.exc
                /\ UNCHANGED <<params, covariances, fit_state>>

\* get_results, lines 78-83: phase angle -> time of peak
AcrophaseNoNeg(phi, t) ==
    PyMod(PyMod(phi, TwoPi) * t, Hours(t))
AcrophaseHours(phi, t) ==
    \* acrophase_rad / omega = acrophase_rad * tau / (2 pi) hours,
    \* that is acrophase_rad * tau units of 1/TwoPi hour
    LET acrophase_rad == PyMod(phi, TwoPi)
        quotient == acrophase_rad * t
    IN  PyMod(0 - quotient, Hours(t))

\* get_results, lines 85-92: the amplitude entry of the dictionary
ResultAmplitude(A) == A

\* get_results: the returned value for the given fields
GetResultsValue(p, c, t) ==
    IF p = None THEN None
    ELSE LET M == Val(p)[1]
             A == Val(p)[2]
             phi == Val(p)[3]
             perr == [i \in 1..3 |-> Sqrt(Diag(Val(c))[i])]
         IN  Some([Mesour |-> M,
                   Amplitude |-> ResultAmplitude(A),
                   Acrophase |-> AcrophaseHours(phi, t),
                   Tau |-> t,
                   M_SE |-> perr[1],
                   A_SE |-> perr[2]])

get_results ==
    /\ cop' = "get_results"
    /\ cret' = GetResultsValue(params, covariances, tau)
    /\ raised' = "none"
    /\ UNCHANGED <<tau, params, covariances, fit_outcome, fit_state,
                   had_params>>

\* get_fit_curve: the returned value on a non-empty series; the curve is
\* M + A cos(omega t + phi) over n_points instants, kept as its defining
\* parameters
GetFitCurveNoGuard(p, t, n_points) ==
    Some([curve_of |-> p, Tau |-> t, n_points |-> n_points])
GetFitCurveValue(p, t, n_points) ==
    IF p = None THEN None
    ELSE Some([curve_of |-> p, Tau |-> t, n_points |-> n_points])

get_fit_curve ==
    /\ cop' = "get_fit_curve"
    /\ cret' = GetFitCurveValue(params, tau, 500)
    /\ raised' = "none"
    /\ UNCHANGED <<tau, params, covariances, fit_outcome, fit_state,
                   had_params>>

\* np.sign
Sign(x) == IF x < 0 THEN 0 - 1 ELSE IF x > 0 THEN 1 ELSE 0

\* run_pipeline, lines 94-106: sign correction of the reported values
CorrectedNoShift(A_raw, Acrophase_raw, t) ==
    IF Sign(A_raw) < 0
    THEN [A_final |-> Abs(A_raw), Acrophase_corrected |-> Acrophase_raw]
    ELSE [A_final |-> A_raw, Acrophase_corrected |-> Acrophase_raw]
Corrected(A_raw, Acrophase_raw, t) ==
    IF Sign(A_raw) < 0
    THEN [A_final |-> Abs(A_raw),
          Acrophase_corrected |->
              PyMod(Acrophase_raw + (Hours(t) \div 2), Hours(t))]
    ELSE [A_final |-> A_raw, Acrophase_corrected |-> Acrophase_raw]

\* run_pipeline, lines 87-106
report_results ==
    LET final_results == GetResultsValue(params, covariances, tau)
    IN  /\ cop' = "report"
        /\ cret' = IF final_results = None THEN None
                   ELSE Some([raw |-> Val(final_results),
                              shown |-> Corrected(Val(final_results).Amplitude,
                                                  Val(final_results).Acrophase,
                                                  Val(final_results).Tau)])
        /\ raised' = "none"
        /\ UNCHANGED <<tau, params, covariances, fit_outcome, fit_state,
                       had_params>>


----------------------------------------------------------------------------
(***************************************************************************)
(* SignalProcessor.  A DataFrame is a record                               *)
(*   [index_name, stamps, cols]                                            *)
(* stamps the timestamps in seconds (the index when index_name is          *)
(* "Timestamp", else an ordinary column named Timestamp under a default    *)
(* index), cols the value columns by name.  DataFrames live in a heap,     *)
(* frames, and are passed by reference (their position in the heap).       *)
(***************************************************************************)
VARIABLES
    sampling_rate,  \* SignalProcessor.sampling_rate: None or a fraction (Hz)
    dt_seconds,     \* SignalProcessor.dt_seconds: None or seconds
    tau_fft,        \* SignalProcessor.tau_fft: None or a fraction (hours)
    frames,         \* the DataFrames that exist
    sop,            \* most recent SignalProcessor operation
    sarg,           \* its arguments: None or [df, value_col]
    sret,           \* what it returned: None, a reference or a period
    sraised,        \* None, or the exception that reached the caller and the
                    \* call that raised it
    before,         \* the argument and the fields as they were at the call
    fft_locals      \* N, dominant_freq_index and dominant_freq_hz of the
                    \* most recent perform_fft_analysis that got that far

svars == <<sampling_rate, dt_seconds, tau_fft, frames, sop, sarg, sret,
           sraised, before, fft_locals>>

vars == <<cvars, svars>>

\* Bounds of the model
MaxN == 7           \* rows of a series
MaxFrames == 3      \* DataFrames alive at once
MaxOrder == 1       \* filter orders 1..MaxOrder

\* sampling intervals of the series the caller builds, seconds
Dts == {0, 900, 7200, 10800}

\* the spacing of a series: every dt seconds, possibly with one sample missing
\* after the second row
Spacings ==
    {[dt |-> d, gap |-> FALSE] : d \in Dts} \cup {[dt |-> 900, gap |-> TRUE]}

Stamps(n, sp) ==
    [i \in 1..n |-> (i - 1) * sp.dt + (IF sp.gap /\ i >= 3 THEN sp.dt ELSE 0)]

\* the values of a series: a constant offset, a period-4 wave on an offset
ShapeValues(shape, n) ==
    [i \in 1..n |->
        IF shape = "const" THEN 4 ELSE <<4, 6, 4, 2>>[((i - 1) % 4) + 1]]

\* the series a caller may hand in: indexed by Timestamp (as run_pipeline
\* builds them), constant at every spacing and a wave at 15 minutes, or with
\* Timestamp still an ordinary column
InputFrames ==
    {[index_name |-> "Timestamp",
      stamps |-> Stamps(n, sp),
      cols |-> [HeartRate |-> ShapeValues("const", n)]] :
        n \in 0..MaxN, sp \in Spacings}
    \cup
    {[index_name |-> "Timestamp",
      stamps |-> Stamps(n, [dt |-> 900, gap |-> FALSE]),
      cols |-> [HeartRate |-> ShapeValues("wave", n)]] : n \in 0..MaxN}
    \cup
    {[index_name |-> "none",
      stamps |-> Stamps(n, [dt |-> 900, gap |-> FALSE]),
      cols |-> [HeartRate |-> ShapeValues("const", n)]] : n \in 0..MaxN}

RECURSIVE Gcd(_, _)
Gcd(a, b) == IF b = 0 THEN a ELSE Gcd(b, a % b)

\* fractions in lowest terms; den = 0 is the float inf (1.0 / numpy 0.0)
Frac(n, d) ==
    LET g == Gcd(n, d)
    IN  IF g = 0 THEN [num |-> n, den |-> d]
        ELSE [num |-> n \div g, den |-> d \div g]
FracDiv(a, b) == Frac(a.num * b.den, a.den * b.num)
FracMul(a, b) == Frac(a.num * b.num, a.den * b.den)

\* SignalProcessor.__init__
InitSignal ==
    /\ sampling_rate = None
    /\ dt_seconds = None
    /\ tau_fft = None
    /\ frames = <<>>
    /\ sop = "init"
    /\ sarg = None
    /\ sret = None
    /\ sraised = None
    /\ before = None
    /\ fft_locals = None

Fields == [dt_seconds |-> dt_seconds, sampling_rate |-> sampling_rate,
           tau_fft |-> tau_fft]

\* the caller reads a series into a new DataFrame and lets go of the others
load_series(f) ==
    /\ frames' = <<f>>
    /\ sop' = "load"
    /\ sarg' = None
    /\ sret' = None
    /\ sraised' = None
    /\ before' = None
    /\ fft_locals' = None
    /\ UNCHANGED <<sampling_rate, dt_seconds, tau_fft>>

\* df.set_index('Timestamp'): a new DataFrame indexed by the timestamps
SetIndex(f) == [f EXCEPT !.index_name = "Timestamp"]

\* calculate_sampling_rate, lines 27-28: the heap after the local name df was
\* bound to the re-indexed DataFrame; set_index returns a new DataFrame, the
\* caller's is not touched
HeapAfterSetIndex(heap, i) == heap

\* df.index.to_series().diff().dropna()
TimeDiff(stamps) == [i \in 1..(Len(stamps) - 1) |-> stamps[i + 1] - stamps[i]]

Count(seq, v) == Cardinality({i \in 1..Len(seq) : seq[i] = v})

\* Series.mode().iloc[0]: the most frequent value, the smallest on a tie
Mode(seq) ==
    CHOOSE v \in {seq[i] : i \in 1..Len(seq)} :
        \A w \in {seq[i] : i \in 1..Len(seq)} :
            \/ Count(seq, w) < Count(seq, v)
            \/ (Count(seq, w) = Count(seq, v) /\ v <= w)

\* calculate_sampling_rate, lines 31-37: the exception or the descriptor
Sampling(f) ==
    LET time_diff == TimeDiff(f.stamps)
    IN  IF time_diff = <<>>
        THEN [exc |-> "ValueError"]
        ELSE [exc |-> "none",
              dt_seconds |-> Mode(time_diff),
              sampling_rate |-> FracDiv(Frac(1, 1), Frac(Mode(time_diff), 1))]

Raised(exc, where) == Some([exc |-> exc, at |-> where])

\* return values: the processor itself, a reference to a DataFrame, a period
RetSelf == Some([kind |-> "self", ref |-> 0, period |-> Frac(0, 1)])
RetFrame(i) == Some([kind |-> "frame", ref |-> i, period |-> Frac(0, 1)])
RetPeriod(t) == Some([kind |-> "period", ref |-> 0, period |-> t])

\* calculate_sampling_rate(df) called by the user
calculate_sampling_rate(i) ==
    LET s == Sampling(SetIndex(frames[i]))
    IN  /\ sop' = "calculate_sampling_rate"
        /\ sarg' = Some([df |-> i, value_col |-> "none"])
        /\ before' = Some([frame |-> frames[i], fields |-> Fields,
                         nframes |-> Len(frames)])
        /\ frames' = HeapAfterSetIndex(frames, i)
        /\ fft_locals' = None
        /\ tau_fft' = tau_fft
        /\ IF s.exc # "none"
           THEN /\ sraised' = Raised(s.exc, "calculate_sampling_rate")
                /\ sret' = None
                /\ UNCHANGED <<dt_seconds, sampling_rate>>
           ELSE /\ dt_seconds' = Some(s.dt_seconds)
                /\ sampling_rate' = Some(s.sampling_rate)
                /\ sraised' = None
                /\ sret' = RetSelf

\* lines 57-58 and 95-96: the descriptor a filter or FFT call works with:
\* the cached one, else the one computed from the series it was given
DescriptorRecomputed(f) == Sampling(SetIndex(f))
Descriptor(f) ==
    IF sampling_rate = None
    THEN Sampling(SetIndex(f))
    ELSE [exc |-> "none", dt_seconds |-> Val(dt_seconds),
          sampling_rate |-> Val(sampling_rate)]

\* apply_butterworth_filter, lines 61-63
NormalizedCutoffFullRate(rate) ==
    FracDiv(FracDiv(Frac(1, 1), Frac(4 * 3600, 1)), rate)
NormalizedCutoff(rate) ==
    LET cutoff_freq_hz == FracDiv(Frac(1, 1), Frac(4 * 3600, 1))
        nyquist_freq == FracMul(Frac(1, 2), rate)
    IN  FracDiv(cutoff_freq_hz, nyquist_freq)

\* signal.butter(..., analog=False): Wn must satisfy 0 < Wn < 1
ButterAccepts(Wn) == Wn.num > 0 /\ Wn.den > 0 /\ Wn.num < Wn.den

\* signal.filtfilt: the input must be longer than padlen = 3 * max(len(a), len(b))
FiltfiltAccepts(n, order) == n > 3 * (order + 1)

\* signal.filtfilt(b, a, x) with a low-pass (b, a): a series as long as x.  A
\* constant series passes unchanged (unit gain at frequency 0); the swing of
\* any other series around its level is removed or reduced, by an amount
\* that depends on the filter and is left open here.
Level(x) == x[1]
Flattened(x) == [i \in 1..Len(x) |-> Level(x)]
Damped(x) ==
    [i \in 1..Len(x) |->
        IF x[i] >= Level(x) THEN Level(x) + ((x[i] - Level(x)) \div 2)
        ELSE Level(x) - ((Level(x) - x[i]) \div 2)]
FiltfiltOutputs(x) == {Flattened(x), Damped(x)}

\* lines 71-72: the heap and the returned reference
FilteredInPlace(heap, i, filtered_values) ==
    [heap |-> [heap EXCEPT ![i].cols =
                   [c \in (DOMAIN heap[i].cols) \cup {"Filtered_Value"} |->
                       IF c = "Filtered_Value" THEN filtered_values
                       ELSE heap[i].cols[c]]],
     ref |-> i]
Filtered(heap, i, filtered_values) ==
    LET df_filtered ==
            [heap[i] EXCEPT !.cols =
                [c \in (DOMAIN heap[i].cols) \cup {"Filtered_Value"} |->
                    IF c = "Filtered_Value" THEN filtered_values
                    ELSE heap[i].cols[c]]]
    IN  [heap |-> Append(heap, df_filtered), ref |-> Len(heap) + 1]

\* apply_butterworth_filter(df, value_col, order)
apply_butterworth_filter(i, value_col, order) ==
    LET d == Descriptor(frames[i])
        heap1 == IF sampling_rate = None
                 THEN HeapAfterSetIndex(frames, i) ELSE frames
    IN  /\ Len(frames) < MaxFrames
        /\ sop' = "apply_butterworth_filter"
        /\ sarg' = Some([df |-> i, value_col |-> value_col])
        /\ before' = Some([frame |-> frames[i], fields |-> Fields,
                         nframes |-> Len(frames)])
        /\ fft_locals' = None
        /\ tau_fft' = tau_fft
        /\ IF d.exc # "none"
           THEN /\ sraised' = Raised(d.exc, "calculate_sampling_rate")
                /\ sret' = None
                /\ frames' = heap1
                /\ UNCHANGED <<dt_seconds, sampling_rate>>
           ELSE /\ dt_seconds' = Some(d.dt_seconds)
                /\ sampling_rate' = Some(d.sampling_rate)
                /\ IF ~ButterAccepts(NormalizedCutoff(d.sampling_rate))
                   THEN /\ sraised' = Raised("ValueError", "butter")
                        /\ sret' = None
                        /\ frames' = heap1
                   ELSE IF ~FiltfiltAccepts(Len(frames[i].cols[value_col]), order)
                   THEN /\ sraised' = Raised("ValueError", "filtfilt")
                        /\ sret' = None
                        /\ frames' = heap1
                   ELSE \E y \in FiltfiltOutputs(frames[i].cols[value_col]) :
                            /\ sraised' = None
                            /\ frames' = Filtered(heap1, i, y).heap
                            /\ sret' = RetFrame(Filtered(heap1, i, y).ref)

CosTable ==
    << <<100>>,
       <<100, (0 - 100)>>,
       <<100, (0 - 50), (0 - 50)>>,
       <<100, 0, (0 - 100), 0>>,
       <<100, 31, (0 - 81), (0 - 81), 31>>,
       <<100, 50, (0 - 50), (0 - 100), (0 - 50), 50>>,
       <<100, 62, (0 - 22), (0 - 90), (0 - 90), (0 - 22), 62>>,
       <<100, 71, 0, (0 - 71), (0 - 100), (0 - 71), 0, 71>>,
       <<100, 77, 17, (0 - 50), (0 - 94), (0 - 94), (0 - 50), 17, 77>>,
       <<100, 81, 31, (0 - 31), (0 - 81), (0 - 100), (0 - 81), (0 - 31), 31, 81>> >>

SinTable ==
    << <<0>>,
       <<0, 0>>,
       <<0, 87, (0 - 87)>>,
       <<0, 100, 0, (0 - 100)>>,
       <<0, 95, 59, (0 - 59), (0 - 95)>>,
       <<0, 87, 87, 0, (0 - 87), (0 - 87)>>,
       <<0, 78, 97, 43, (0 - 43), (0 - 97), (0 - 78)>>,
       <<0, 71, 100, 71, 0, (0 - 71), (0 - 100), (0 - 71)>>,
       <<0, 64, 98, 87, 34, (0 - 34), (0 - 87), (0 - 98), (0 - 64)>>,
       <<0, 59, 95, 95, 59, 0, (0 - 59), (0 - 95), (0 - 95), (0 - 59)>> >>

\* |np.fft.fft(Y)[k]| ** 2, with the twiddle factors in hundredths
Power(Y, k) ==
    LET N == Len(Y)
        re[n \in 0..N] ==
            IF n = 0 THEN 0
            ELSE re[n - 1] + Y[n] * CosTable[N][((k * (n - 1)) % N) + 1]
        im[n \in 0..N] ==
            IF n = 0 THEN 0
            ELSE im[n - 1] - Y[n] * SinTable[N][((k * (n - 1)) % N) + 1]
    IN  re[N] * re[N] + im[N] * im[N]

\* the bins a Python slice [1:N//2] keeps
BinsFromZero(N) == [j \in 1..(N \div 2) |-> j - 1]
BinsThroughNyquist(N) == [j \in 1..(N \div 2) |-> j]
SpectrumBins(N) ==
    [j \in 1..(IF N \div 2 > 1 THEN (N \div 2) - 1 ELSE 0) |-> j]

\* np.fft.fftfreq(N, d)[k] for a bin k of the positive half
FftFreq(N, d, k) == FracDiv(Frac(k, 1), Frac(N * d, 1))

\* np.argmax of a non-empty sequence: the first index of the maximum, from 0
ArgMax(seq) ==
    (CHOOSE j \in 1..Len(seq) :
        /\ \A m \in 1..Len(seq) : seq[m] <= seq[j]
        /\ \A m \in 1..(j - 1) : seq[m] < seq[j]) - 1

\* perform_fft_analysis(df_filtered, value_col)
perform_fft_analysis(i, value_col) ==
    LET d == Descriptor(frames[i])
        Y == frames[i].cols[value_col]
        N == Len(Y)
        bins == SpectrumBins(N)
        power_spectrum == [j \in 1..Len(bins) |-> Power(Y, bins[j])]
        frequencies == [j \in 1..Len(bins) |-> FftFreq(N, d.dt_seconds, bins[j])]
        dominant_freq_index == ArgMax(power_spectrum)
        dominant_freq_hz == frequencies[dominant_freq_index + 1]
        tau_hours == FracDiv(Frac(1, 1), FracMul(dominant_freq_hz, Frac(3600, 1)))
    IN  /\ sop' = "perform_fft_analysis"
        /\ sarg' = Some([df |-> i, value_col |-> value_col])
        /\ before' = Some([frame |-> frames[i], fields |-> Fields,
                         nframes |-> Len(frames)])
        /\ frames' = IF sampling_rate = None
                     THEN HeapAfterSetIndex(frames, i) ELSE frames
        /\ IF d.exc # "none"
           THEN /\ sraised' = Raised(d.exc, "calculate_sampling_rate")
                /\ sret' = None
                /\ fft_locals' = None
                /\ UNCHANGED <<dt_seconds, sampling_rate, tau_fft>>
           ELSE /\ dt_seconds' = Some(d.dt_seconds)
                /\ sampling_rate' = Some(d.sampling_rate)
                /\ IF N = 0
                   THEN \* np.fft.fft of an empty array
                        /\ sraised' = Raised("ValueError", "fft")
                        /\ sret' = None
                        /\ fft_locals' = None
                        /\ tau_fft' = tau_fft
                   ELSE IF power_spectrum = <<>>
                   THEN \* np.argmax of an empty array
                        /\ sraised' = Raised("ValueError", "argmax")
                        /\ sret' = None
                        /\ fft_locals' = None
                        /\ tau_fft' = tau_fft
                   ELSE /\ sraised' = None
                        /\ tau_fft' = Some(tau_hours)
                        /\ sret' = RetPeriod(tau_hours)
                        /\ fft_locals' =
                               Some([N |-> N,
                                     dominant_freq_index |-> dominant_freq_index,
                                     bin |-> bins[dominant_freq_index + 1],
                                     dominant_freq_hz |-> dominant_freq_hz])

Columns(f) == DOMAIN f.cols

----------------------------------------------------------------------------
Init == InitCosinor /\ InitSignal

NextCosinor ==
    \/ (\E n \in 0..MaxRows : fit_model(n)) /\ UNCHANGED svars
    \/ get_results /\ UNCHANGED svars
    \/ get_fit_curve /\ UNCHANGED svars
    \/ report_results /\ UNCHANGED svars

NextSignal ==
    \/ (\E f \in InputFrames : load_series(f)) /\ UNCHANGED cvars
    \/ (\E i \in 1..Len(frames) : calculate_sampling_rate(i)) /\ UNCHANGED cvars
    \/ (\E i \in 1..Len(frames) : \E c \in Columns(frames[i]) :
           \E order \in 1..MaxOrder : apply_butterworth_filter(i, c, order))
       /\ UNCHANGED cvars
    \/ (\E i \in 1..Len(frames) : \E c \in Columns(frames[i]) :
           perform_fft_analysis(i, c)) /\ UNCHANGED cvars

\* a CosinorModel in isolation
SpecCosinor == Init /\ [][NextCosinor]_vars

\* a SignalProcessor in isolation
InitSignalOnly == Init /\ tau = 1
SpecSignal == InitSignalOnly /\ [][NextSignal]_vars

----------------------------------------------------------------------------
\* C1 (as stated): get_results and get_fit_curve return a result only if the
\* most recent fit_model call converged, and return None while no fit was
\* made or the most recent fit did not converge.
C1_AsStated ==
    cop \in {"get_results", "get_fit_curve"} =>
        /\ (cret # None => fit_outcome = "converged")
        /\ (fit_outcome \in {"UNFIT", "not_converged"} => cret = None)
        /\ raised = "none"

\* C1 (amended): get_results and get_fit_curve return a result only if the
\* most recent fit_model call that returned to its caller converged; in
\* UNFIT and in FIT_FAILED both return None and neither raises.  A fit_model
\* call that lets an exception through leaves the earlier state in place.
C1_ResultIffFitted ==
    cop \in {"get_results", "get_fit_curve"} =>
        /\ (cret # None => fit_state = "FITTED")
        /\ (fit_state \in {"UNFIT", "FIT_FAILED"} => cret = None /\ raised = "none")

\* a curve was asked for after a failed fit that followed a successful one
C1_Witness ==
    /\ cop = "get_fit_curve"
    /\ fit_state = "FIT_FAILED"
    /\ had_params
    /\ cret = None

\* C2: a fit_model call whose least-squares fit did not converge returns
\* normally and leaves params and covariances None, whatever they held.
C2_NotConvergedIsAbsent ==
    fit_outcome = "not_converged" =>
        /\ params = None
        /\ covariances = None
        /\ (cop = "fit_model" => raised = "none")

\* a fit that did not converge overwrote an earlier result
C2_Witness ==
    /\ cop = "fit_model"
    /\ fit_outcome = "not_converged"
    /\ had_params
    /\ params = None

\* C3: the amplitude in the record returned by get_results is non-negative.
C3_AmplitudeNonNegative ==
    (cop = "get_results" /\ cret # None) => Val(cret).Amplitude >= 0

----------------------------------------------------------------------------
\* the series and the value column the most recent call was given
ArgFrame == Val(before).frame
ArgValues == ArgFrame.cols[Val(sarg).value_col]
Distinct(seq) == {seq[i] : i \in 1..Len(seq)}

\* C6: for every series of length N >= 4 perform_fft_analysis selects a bin
\* in 1 .. N/2 - 1, never the zero-frequency bin: the dominant frequency is
\* strictly positive and the returned period is finite, also for a constant
\* series.
C6_NeverDCBin ==
    (sop = "perform_fft_analysis" /\ Len(ArgValues) >= 4) =>
        /\ sraised = None
        /\ fft_locals # None
        /\ Val(fft_locals).N = Len(ArgValues)
        /\ Val(fft_locals).bin \in 1..((Len(ArgValues) \div 2) - 1)
        /\ Val(fft_locals).bin = Val(fft_locals).dominant_freq_index + 1
        /\ Val(fft_locals).dominant_freq_hz.num > 0
        /\ Val(sret).period.den > 0
        /\ tau_fft = Some(Val(sret).period)

\* a constant series of at least 4 rows went through the FFT
C6_Witness ==
    /\ sop = "perform_fft_analysis"
    /\ Len(ArgValues) >= 4
    /\ Cardinality(Distinct(ArgValues)) = 1
    /\ sret # None

C7_WitnessUncached ==
    /\ sop = "perform_fft_analysis"
    /\ Len(ArgValues) \in 2..3
    /\ Val(before).fields.sampling_rate = None
    /\ sraised # None

\* C8: calculate_sampling_rate on a series with fewer than 2 distinct
\* timestamps fails and leaves the cached interval and rate unchanged.
C8_FewDistinctStampsFail ==
    (sop = "calculate_sampling_rate"
        /\ Cardinality(Distinct(ArgFrame.stamps)) < 2) =>
        /\ sraised # None
        /\ sret = None
        /\ dt_seconds = Val(before).fields.dt_seconds
        /\ sampling_rate = Val(before).fields.sampling_rate

\* C9: apply_butterworth_filter fails in the filter design and returns no
\* series whenever the sampling interval / 7200 is not strictly between 0
\* and 1, in particular for every interval of 7200 seconds or more.
C9_InvalidCutoffFails ==
    (sop = "apply_butterworth_filter" /\ dt_seconds # None
        /\ (Val(dt_seconds) <= 0 \/ Val(dt_seconds) >= 7200)) =>
        /\ sraised = Some([exc |-> "ValueError", at |-> "butter"])
        /\ sret = None
        /\ Len(frames) = Val(before).nframes

\* a series long enough to filter was refused at exactly 7200 seconds
C9_Witness ==
    /\ sop = "apply_butterworth_filter"
    /\ dt_seconds = Some(7200)
    /\ Len(ArgValues) > 6
    /\ sraised # None
    /\ Val(sraised).at = "butter"

\* C10 (as stated): apply_butterworth_filter leaves the caller's series as it
\* was and returns a new series whose original value channel equals the
\* input's.
C10_AsStated ==
    sop = "apply_butterworth_filter" =>
        /\ frames[Val(sarg).df] = ArgFrame
        /\ sret # None =>
               /\ Val(sret).ref # Val(sarg).df
               /\ frames[Val(sret).ref].stamps = ArgFrame.stamps
               /\ frames[Val(sret).ref].cols[Val(sarg).value_col] = ArgValues

\* C10 (amended): the caller's series is left as it was, the returned series
\* is another object with the same timestamps and every channel of the input
\* other than Filtered_Value unchanged; the value channel is preserved
\* unless it is itself named Filtered_Value, which then holds the filtered
\* values.
C10_InputUntouched ==
    sop = "apply_butterworth_filter" =>
        /\ frames[Val(sarg).df] = ArgFrame
        /\ sret # None =>
               /\ Val(sret).ref # Val(sarg).df
               /\ frames[Val(sret).ref].stamps = ArgFrame.stamps
               /\ \A c \in DOMAIN ArgFrame.cols \ {"Filtered_Value"} :
                      frames[Val(sret).ref].cols[c] = ArgFrame.cols[c]
               /\ Val(sarg).value_col # "Filtered_Value" =>
                      frames[Val(sret).ref].cols[Val(sarg).value_col] = ArgValues

\* a series without a filtered channel was filtered with no descriptor cached
C10_Witness ==
    /\ sop = "apply_butterworth_filter"
    /\ sret # None
    /\ Val(before).fields.sampling_rate = None
    /\ "Filtered_Value" \notin DOMAIN frames[Val(sarg).df].cols
    /\ "Filtered_Value" \in DOMAIN frames[Val(sret).ref].cols
    /\ frames[Val(sret).ref].cols["Filtered_Value"] # ArgValues

\* the spacings between consecutive timestamps of the series given
ArgSpacings ==
    {ArgFrame.stamps[k + 1] - ArgFrame.stamps[k] :
        k \in 1..(Len(ArgFrame.stamps) - 1)}

\* C11: the interval and the rate are both unset, or both set with
\* rate = 1 / interval.  A filter or FFT call computes them from the series
\* it is given only when none is cached; with a descriptor cached it leaves
\* it as it is and works with it, whatever the spacing of the series given.
C11_LazyThenReused ==
    /\ dt_seconds = None <=> sampling_rate = None
    /\ sampling_rate # None =>
           /\ Val(sampling_rate).num * Val(dt_seconds) = Val(sampling_rate).den
           /\ Val(sampling_rate).num > 0
    /\ sop \in {"apply_butterworth_filter", "perform_fft_analysis"} =>
           /\ Val(before).fields.sampling_rate # None =>
                  /\ dt_seconds = Val(before).fields.dt_seconds
                  /\ sampling_rate = Val(before).fields.sampling_rate
           /\ Val(before).fields.sampling_rate = None =>
                  IF ArgSpacings = {}
                  THEN /\ dt_seconds = None
                       /\ sraised =
                              Some([exc |-> "ValueError",
                                    at |-> "calculate_sampling_rate"])
                  ELSE /\ dt_seconds # None
                       /\ Val(dt_seconds) \in ArgSpacings
           /\ (sop = "perform_fft_analysis" /\ sret # None) =>
                  Val(fft_locals).dominant_freq_hz.num
                          * Val(fft_locals).N * Val(dt_seconds)
                      = Val(fft_locals).dominant_freq_hz.den * Val(fft_locals).bin
           /\ (sop = "apply_butterworth_filter" /\ dt_seconds # None) =>
                  (sraised = Some([exc |-> "ValueError", at |-> "butter"])
                      <=> ~(0 < Val(dt_seconds) /\ Val(dt_seconds) < 7200))

\* an FFT ran with a cached interval on a series of another spacing
C11_Witness ==
    /\ sop = "perform_fft_analysis"
    /\ sret # None
    /\ Val(before).fields.dt_seconds # None
    /\ ArgSpacings # {}
    /\ Val(dt_seconds) \notin ArgSpacings
    /\ dt_seconds = Val(before).fields.dt_seconds

\* a filter call computed the descriptor itself, none being cached
C11_WitnessLazy ==
    /\ sop = "apply_butterworth_filter"
    /\ Val(before).fields.sampling_rate = None
    /\ sampling_rate # None
    /\ sret # None

====
